---- MODULE Spec2Model ----
(***************************************************************************)
(* Model of scripts/migration/notion_to_supabase_enhanced.py: the Notion   *)
(* CSV -> Supabase migration pipeline (main and the functions it calls).   *)
(*                                                                         *)
(* Text is modelled as a sequence of tokens (one-character strings, words  *)
(* and digit groups); Python's None / pandas' NaN cell is the one-element  *)
(* sequence None, which no text equals.                                    *)
(***************************************************************************)
EXTENDS Integers, Sequences, FiniteSets, TLC

\* ------------------------------------------------------------------ bounds
\* Longest CSV whose rows are enumerated freely from SampleRows.
MaxSmallRows == 2
\* Largest number of full batches in a generated long CSV.
MaxBatches == 2
\* How many times the script is run on the same input.
MaxRuns == 2

\* --------------------------------------------------------------- constants
batch_size == 100

None == <<"<None>">>

isna(v) == v = None

\* ------------------------------------------------------------ sequence aids
RECURSIVE SeqSum(_)
SeqSum(s) == IF s = <<>> THEN 0 ELSE Head(s) + SeqSum(Tail(s))

Min(a, b) == IF a < b THEN a ELSE b

\* str.strip(): leading and trailing whitespace tokens removed
RECURSIVE lstrip(_)
lstrip(t) == IF t # <<>> /\ Head(t) = " " THEN lstrip(Tail(t)) ELSE t

RECURSIVE rstrip(_)
rstrip(t) ==
    IF t # <<>> /\ t[Len(t)] = " " THEN rstrip(SubSeq(t, 1, Len(t) - 1)) ELSE t

strip(t) == rstrip(lstrip(t))

\* text.split('(')[0]: the part before the first opening parenthesis
RECURSIVE BeforeParen(_)
BeforeParen(t) ==
    IF t = <<>> \/ Head(t) = "(" THEN <<>>
    ELSE <<Head(t)>> \o BeforeParen(Tail(t))

\* ------------------------------------------------------------- normalizers
clean_notion_text(text) ==
    IF isna(text) THEN None
    ELSE LET s == strip(text)
         IN  IF \E k \in 1..Len(s) : s[k] = "(" THEN strip(BeforeParen(s)) ELSE s

\* the hard-coded spelling variants, Notion spelling -> Supabase spelling
\* (the Vietnamese names are written in ASCII, the differing diacritic named
\* in brackets: the two spellings of a pair differ in that one letter only)
category_mapping ==
    (<<"Qua va[breve-dot]t">> :> <<"Qua va[circumflex-dot]t">>) @@
    (<<"Suc kho[grave-hook-late]e">> :> <<"Suc kho[grave-hook-early]e">>) @@
    (<<"Bie[acute]u gia dinh">> :> <<"Bie[hook]u gia dinh">>)

normalize_category_name(category) ==
    IF isna(category) THEN None
    ELSE IF category \in DOMAIN category_mapping THEN category_mapping[category]
    ELSE category

\* digit-group tokens: value and number of digits
DigitTok ==
    ("0" :> <<0, 1>>) @@ ("1" :> <<1, 1>>) @@ ("5" :> <<5, 1>>) @@
    ("01" :> <<1, 2>>) @@ ("12" :> <<12, 2>>) @@ ("13" :> <<13, 2>>) @@
    ("30" :> <<30, 2>>) @@ ("50" :> <<50, 2>>) @@ ("000" :> <<0, 3>>) @@
    ("2025" :> <<2025, 4>>)

RECURSIVE Pow10(_)
Pow10(n) == IF n = 0 THEN 1 ELSE 10 * Pow10(n - 1)

RECURSIVE DigitsValue(_, _)
\* the number written by the digit groups toks, continuing from acc
DigitsValue(toks, acc) ==
    IF toks = <<>> THEN acc
    ELSE DigitsValue(Tail(toks), acc * Pow10(DigitTok[Head(toks)][2]) + DigitTok[Head(toks)][1])

RECURSIVE RemoveCommas(_)
RemoveCommas(t) ==
    IF t = <<>> THEN <<>>
    ELSE IF Head(t) = "," THEN RemoveCommas(Tail(t))
    ELSE <<Head(t)>> \o RemoveCommas(Tail(t))

AllDigits(t) == t # <<>> /\ \A k \in 1..Len(t) : t[k] \in DOMAIN DigitTok

\* float(s) for the inputs of the model: surrounding whitespace, an optional
\* sign and decimal digits; anything else raises ValueError
FloatParses(s) ==
    LET u == strip(s)
    IN  \/ AllDigits(u)
        \/ u # <<>> /\ Head(u) \in {"-", "+"} /\ AllDigits(Tail(u))

FloatValue(s) ==
    LET u == strip(s)
    IN  IF Head(u) = "-" THEN 0 - DigitsValue(Tail(u), 0)
        ELSE IF Head(u) = "+" THEN DigitsValue(Tail(u), 0)
        ELSE DigitsValue(u, 0)

clean_amount(amount) ==
    IF isna(amount) THEN 0
    ELSE LET amount_str == RemoveCommas(amount)
         IN  IF FloatParses(amount_str) THEN FloatValue(amount_str) ELSE 0

\* month names as %B reads them (case-insensitively), with the month number
MonthTok ==
    ("January" :> 1) @@ ("january" :> 1) @@ ("February" :> 2) @@
    ("December" :> 12)

IsLeap(y) == (y % 4 = 0 /\ y % 100 # 0) \/ y % 400 = 0

DaysInMonth(y, m) ==
    IF m = 2 THEN (IF IsLeap(y) THEN 29 ELSE 28)
    ELSE IF m \in {4, 6, 9, 11} THEN 30 ELSE 31

\* a run of whitespace tokens read as one (the \s+ of strptime's pattern)
RECURSIVE CollapseWs(_)
CollapseWs(t) ==
    IF Len(t) < 2 THEN t
    ELSE IF t[1] = " " /\ t[2] = " " THEN CollapseWs(Tail(t))
    ELSE <<Head(t)>> \o CollapseWs(Tail(t))

IsNum(tok, maxDigits) == tok \in DOMAIN DigitTok /\ DigitTok[tok][2] <= maxDigits

ValidDate(y, m, d) == m \in 1..12 /\ d >= 1 /\ d <= DaysInMonth(y, m) /\ y >= 1

\* datetime.strptime(s, "%B %d, %Y"): <<y, m, d>>, or <<>> for ValueError
StrptimeLong(s) ==
    LET t == CollapseWs(s)
    IN  IF /\ Len(t) = 6
           /\ t[1] \in DOMAIN MonthTok
           /\ t[2] = " "
           /\ IsNum(t[3], 2)
           /\ t[4] = ","
           /\ t[5] = " "
           /\ IsNum(t[6], 4) /\ DigitTok[t[6]][2] = 4
           /\ ValidDate(DigitTok[t[6]][1], MonthTok[t[1]], DigitTok[t[3]][1])
        THEN <<DigitTok[t[6]][1], MonthTok[t[1]], DigitTok[t[3]][1]>>
        ELSE <<>>

\* datetime.strptime(s, "%Y-%m-%d"): <<y, m, d>>, or <<>> for ValueError
StrptimeIso(s) ==
    IF /\ Len(s) = 5
       /\ IsNum(s[1], 4) /\ DigitTok[s[1]][2] = 4
       /\ s[2] = "-"
       /\ IsNum(s[3], 2)
       /\ s[4] = "-"
       /\ IsNum(s[5], 2)
       /\ ValidDate(DigitTok[s[1]][1], DigitTok[s[3]][1], DigitTok[s[5]][1])
    THEN <<DigitTok[s[1]][1], DigitTok[s[3]][1], DigitTok[s[5]][1]>>
    ELSE <<>>

Pad2(n) == IF n < 10 THEN "0" \o ToString(n) ELSE ToString(n)

Pad4(n) ==
    IF n < 10 THEN "000" \o ToString(n)
    ELSE IF n < 100 THEN "00" \o ToString(n)
    ELSE IF n < 1000 THEN "0" \o ToString(n)
    ELSE ToString(n)

\* date_obj.strftime("%Y-%m-%d")
Strftime(ymd) == <<Pad4(ymd[1]), "-", Pad2(ymd[2]), "-", Pad2(ymd[3])>>

parse_notion_date(date_str) ==
    IF isna(date_str) THEN None
    ELSE IF StrptimeLong(date_str) # <<>> THEN Strftime(StrptimeLong(date_str))
    ELSE IF StrptimeIso(date_str) # <<>> THEN Strftime(StrptimeIso(date_str))
    ELSE None

\* ---------------------------------------------------- owner identifier
\* hexadecimal group tokens: number of characters, and whether all of them
\* are in [0-9a-f]
HexTok ==
    ("01234567" :> <<8, TRUE>>) @@ ("89ab" :> <<4, TRUE>>) @@
    ("cdef" :> <<4, TRUE>>) @@ ("0123" :> <<4, TRUE>>) @@
    ("456789abcdef" :> <<12, TRUE>>) @@ ("89AB" :> <<4, FALSE>>) @@
    ("89a" :> <<3, TRUE>>)

IsHexGroup(tok, n) == tok \in DOMAIN HexTok /\ HexTok[tok] = <<n, TRUE>>

\* [0-9a-f]{8}-[0-9a-f]{4}-[0-9a-f]{4}-[0-9a-f]{4}-[0-9a-f]{12}
IsUuidText(u) ==
    /\ Len(u) = 9
    /\ IsHexGroup(u[1], 8) /\ u[2] = "-"
    /\ IsHexGroup(u[3], 4) /\ u[4] = "-"
    /\ IsHexGroup(u[5], 4) /\ u[6] = "-"
    /\ IsHexGroup(u[7], 4) /\ u[8] = "-"
    /\ IsHexGroup(u[9], 12)

\* uuid_pattern.match(user_id) with the pattern ^...$: Python's $ matches at
\* the end of the string and also just before a newline that ends it
uuid_pattern_match(u) ==
    \/ IsUuidText(u)
    \/ Len(u) > 0 /\ u[Len(u)] = "\n" /\ IsUuidText(SubSeq(u, 1, Len(u) - 1))

GoodUuid == <<"01234567", "-", "89ab", "-", "cdef", "-", "0123", "-", "456789abcdef">>

SampleUserIds ==
    { GoodUuid,
      GoodUuid \o <<"\n">>,
      <<"01234567", "-", "89AB", "-", "cdef", "-", "0123", "-", "456789abcdef">>,
      <<"01234567", "-", "89a", "-", "cdef", "-", "0123", "-", "456789abcdef">>,
      <<"01234567", "89ab", "cdef", "0123", "456789abcdef">> }

\* ------------------------------------------------------------- the inputs
LongDate == <<"January", " ", "1", ",", " ", "2025">>
IsoDate == <<"2025", "-", "12", "-", "30">>

Row(name, amount, category, type, date, notes) ==
    [Name |-> name, Amount |-> amount, Category |-> category, Type |-> type,
     Date |-> date, Notes |-> notes]

SampleRows ==
    { Row(<<"Lunch">>, <<"50", ",", "000">>, <<"Food", " ", "(", "https://www.notion.so/1", ")">>,
          <<"Need">>, LongDate, None),
      Row(<<"Taxi">>, <<"12">>, <<"Travel">>, <<"Need">>, <<"February", " ", "30", ",", " ", "2025">>, None),
      Row(<<"Gift">>, <<"abc">>, <<"Food">>, <<"Want">>, IsoDate, <<" ">>),
      Row(<<"Bus">>, <<"5">>, <<"Travel">>, <<"Need">>, IsoDate, None),
      Row(<<"Spa">>, <<"30">>, <<"Food">>, <<"Luxury", " ", "(", "https://www.notion.so/2", ")">>,
          LongDate, None),
      Row(None, None, None, None, IsoDate, None),
      Row(<<"Candy">>, <<"-", "5">>, <<"Qua va[breve-dot]t">>, <<"Want">>, LongDate,
          <<"sweet", " ", "(", "https://www.notion.so/3", ")">>) }

RECURSIVE SeqsUpTo(_, _)
SeqsUpTo(S, n) ==
    IF n = 0 THEN {<<>>}
    ELSE LET shorter == SeqsUpTo(S, n - 1)
         IN  shorter \cup {Append(s, x) : s \in {t \in shorter : Len(t) = n - 1}, x \in S}

SmallCsvs == SeqsUpTo(SampleRows, MaxSmallRows)

\* long CSVs: n valid rows told apart by their names, n around the multiples
\* of the batch size
LongSizes ==
    {batch_size * b + d : b \in {1, MaxBatches}, d \in {0 - 1, 0, 1}}
        \cup {batch_size * MaxBatches + batch_size \div 2}

LongCsv(n) ==
    [k \in 1..n |-> Row(<<"r", ToString(k)>>, <<"1">>, <<"Food">>, <<"Need">>, IsoDate, None)]

\* the destination's lookup tables (id, name_vi)
FullCategories ==
    << [id |-> "cat-1", name_vi |-> <<"Food">>],
       [id |-> "cat-2", name_vi |-> <<"Qua va[circumflex-dot]t">>] >>

FewCategories == << [id |-> "cat-2", name_vi |-> <<"Qua va[circumflex-dot]t">>] >>

ExpenseTypes ==
    << [id |-> "type-1", name_vi |-> <<"Need">>],
       [id |-> "type-2", name_vi |-> <<"Want">>] >>

\* a row the owner already has in the destination
PriorExpense ==
    [user_id |-> GoodUuid, category_id |-> "cat-1", type_id |-> "type-1",
     description |-> <<"old">>, amount |-> 1, date |-> <<"2024", "-", "01", "-", "01">>,
     note |-> None]

\* what an insert of a batch may raise
Messages == {"duplicate key value", "connection timed out"}

\* what the operator may type at the prompt
Answers == {"yes", "YES", "no"}

\* str.lower()
lower(s) == IF s = "YES" THEN "yes" ELSE s

\* ------------------------------------------------------------------ state
VARIABLES
    pc,             \* where main is: the step to run next, or "exited"
    exit_code,      \* the process's exit status; -1 while it runs
    outcome,        \* how the run ended ("" while it runs)
    user_id,        \* args.user_id
    csv_exists,     \* os.path.exists(args.csv)
    csv_rows,       \* the rows pd.read_csv reads from args.csv
    csv_opened,     \* the file has been read
    stdin,          \* what the operator types at the prompt
    db_categories,  \* the destination's categories table
    db_types,       \* the destination's expense_types table
    db_expenses,    \* the destination's expenses table
    requests,       \* the calls this run has made to the destination, in order
    category_map, type_map,
    df,             \* the cleaned data frame
    report,         \* what load_and_clean_csv, validate_data and
                    \* transform_data print
    expenses,       \* transform_data's result
    confirm,        \* the operator's answer
    i, total_inserted, errors,      \* migrate_expenses's locals
    verified,       \* verify_migration's result: "", "match" or "mismatch"
    run,            \* which run of the script this is, from 1
    db_at_start     \* the expenses table as it was when this run started

vars ==
    <<pc, exit_code, outcome, user_id, csv_exists, csv_rows, csv_opened, stdin,
      db_categories, db_types, db_expenses, requests, category_map, type_map,
      df, report, expenses, confirm, i, total_inserted, errors, verified,
      run, db_at_start>>

inputs == <<user_id, csv_exists, csv_rows, stdin, db_categories, db_types>>
migrate_locals == <<i, total_inserted, errors>>
history == <<run, db_at_start>>

NoReport ==
    [rows_read |-> 0, rows_retained |-> 0, removed_count |-> 0,
     invalid_categories |-> {}, invalid_types |-> {}, skipped |-> 0]

\* a call the destination received: the rows sent, whether it answered, the
\* number of rows in response.data (or response.count), the exception's text
Request(op, table, rows, ok, returned, error) ==
    [op |-> op, table |-> table, rows |-> rows, ok |-> ok, returned |-> returned,
     error |-> error]

\* mutant of Exit: every way out reports success
Exit_AlwaysZero(code, why) == pc' = "exited" /\ exit_code' = 0 /\ outcome' = why

\* sys.exit(code), or an uncaught exception (status 1)
Exit(code, why) == pc' = "exited" /\ exit_code' = code /\ outcome' = why

\* ------------------------------------------------------- the pipeline steps
\* {row['name_vi']: row['id'] for row in response.data}: a later row wins
NameToId(data) ==
    [n \in {data[k].name_vi : k \in 1..Len(data)} |->
        LET last == CHOOSE k \in 1..Len(data) :
                        /\ data[k].name_vi = n
                        /\ \A j \in k + 1..Len(data) : data[j].name_vi # n
        IN  data[last].id]

CleanRow(r) ==
    [description |-> clean_notion_text(r.Name),
     amount |-> clean_amount(r.Amount),
     category |-> normalize_category_name(clean_notion_text(r.Category)),
     type |-> clean_notion_text(r.Type),
     date |-> parse_notion_date(r.Date),
     note |-> IF ~isna(r.Notes) /\ strip(r.Notes) # <<>>
              THEN clean_notion_text(r.Notes) ELSE None]

CleanedDf(rows) == [k \in 1..Len(rows) |-> CleanRow(rows[k])]

DateNotNa(r) == ~isna(r.date)

\* mutant of DropInvalidDates: rows whose amount is 0 are dropped as well
DropInvalidDates_AlsoZeroAmount(cleaned_df) ==
    SelectSeq(cleaned_df, LAMBDA r : DateNotNa(r) /\ r.amount # 0)

\* cleaned_df[cleaned_df['date'].notna()]
DropInvalidDates(cleaned_df) == SelectSeq(cleaned_df, DateNotNa)

Column(frame, col) == {frame[k][col] : k \in 1..Len(frame)}

\* mutant of InvalidValues: None is not filtered out
InvalidValues_KeepNone(frame, col, map) == Column(frame, col) \ DOMAIN map

\* set(c for c in df[col].unique() if c is not None) - set(map.keys())
InvalidValues(frame, col, map) == (Column(frame, col) \ {None}) \ DOMAIN map

\* len(df[df[col] == value])
CountRows(frame, col, value) ==
    Cardinality({k \in 1..Len(frame) : frame[k][col] = value})

\* the lines "  * value (count expenses)" printed for each invalid value
InvalidReport(frame, col, map) ==
    {<<v, CountRows(frame, col, v)>> : v \in InvalidValues(frame, col, map)}

Resolves(row, cmap, tmap) == row.category \in DOMAIN cmap /\ row.type \in DOMAIN tmap

\* mutant of Expense: the two identifiers land in each other's column
Expense_SwappedIds(row, cmap, tmap, uid) ==
    [user_id |-> uid,
     category_id |-> tmap[row.type],
     type_id |-> cmap[row.category],
     description |-> row.description,
     amount |-> row.amount,
     date |-> row.date,
     note |-> row.note]

Expense(row, cmap, tmap, uid) ==
    [user_id |-> uid,
     category_id |-> cmap[row.category],
     type_id |-> tmap[row.type],
     description |-> row.description,
     amount |-> row.amount,
     date |-> row.date,
     note |-> row.note]

transform_data(frame, cmap, tmap, uid) ==
    LET kept == SelectSeq(frame, LAMBDA row : Resolves(row, cmap, tmap))
    IN  [k \in 1..Len(kept) |-> Expense(kept[k], cmap, tmap, uid)]

\* transform_data's skipped counter: a row is counted at the first check it
\* fails (the continue keeps it from being counted twice)
SkippedCount(frame, cmap, tmap) ==
    Cardinality({k \in 1..Len(frame) : frame[k].category \notin DOMAIN cmap})
    + Cardinality({k \in 1..Len(frame) :
                      /\ frame[k].category \in DOMAIN cmap
                      /\ frame[k].type \notin DOMAIN tmap})

\* mutant of BatchAt: the slice runs one row into the next batch
BatchAt_Overlap(exps, at) == SubSeq(exps, at + 1, Min(at + batch_size + 1, Len(exps)))

\* expenses[i:i + batch_size]
BatchAt(exps, at) == SubSeq(exps, at + 1, Min(at + batch_size, Len(exps)))

\* mutant of AddInserted: the rows sent are counted, not the rows returned
AddInserted_BatchLen(total, data, batch) == total + Len(batch)

\* total_inserted += len(response.data)
AddInserted(total, data, batch) == total + Len(data)

\* mutant of NextI: the loop steps over every other batch
NextI_SkipsBatch(at) == at + 2 * batch_size

\* the next value of range(0, len(expenses), batch_size)
NextI(at) == at + batch_size

\* mutant of ErrorEntry: the batch is named by its 0-based index
ErrorEntry_ZeroBased(at, msg) == <<"Batch ", ToString(at \div batch_size), ": ", msg>>

\* f"Batch {i//batch_size + 1}: {str(e)}"
ErrorEntry(at, msg) == <<"Batch ", ToString(at \div batch_size + 1), ": ", msg>>

\* the rows of the expenses table a count query with .eq('user_id', uid) counts
CountFor(table, uid) == Len(SelectSeq(table, LAMBDA r : r.user_id = uid))

\* ------------------------------------------------------------------- Init
Init ==
    /\ pc = "start" /\ exit_code = 0 - 1 /\ outcome = ""
    /\ \/ \* any owner identifier, with a file of one row or no file
          /\ user_id \in SampleUserIds
          /\ \/ csv_exists = TRUE /\ csv_rows \in SeqsUpTo(SampleRows, 1)
             \/ csv_exists = FALSE /\ csv_rows = <<>>
          /\ db_categories = FullCategories
          /\ stdin \in Answers
          /\ db_expenses \in {<<>>, <<PriorExpense>>}
       \/ \* any short file, against either categories table
          /\ user_id = GoodUuid
          /\ csv_exists = TRUE
          /\ csv_rows \in SmallCsvs
          /\ db_categories \in {FullCategories, FewCategories}
          /\ stdin \in {"yes", "no"}
          /\ db_expenses = <<>>
       \/ \* a long file of valid rows
          /\ user_id = GoodUuid
          /\ csv_exists = TRUE
          /\ csv_rows \in {LongCsv(n) : n \in LongSizes}
          /\ db_categories = FullCategories
          /\ stdin = "yes"
          /\ db_expenses \in {<<>>, <<PriorExpense>>}
    /\ db_types = ExpenseTypes
    /\ csv_opened = FALSE
    /\ requests = <<>>
    /\ category_map = <<>> /\ type_map = <<>>
    /\ df = <<>> /\ report = NoReport /\ expenses = <<>>
    /\ confirm = ""
    /\ i = 0 /\ total_inserted = 0 /\ errors = <<>>
    /\ verified = ""
    /\ run = 1 /\ db_at_start = db_expenses

\* ---------------------------------------------------------------- actions
\* main: the UUID format check
CheckUuid ==
    /\ pc = "start"
    /\ IF uuid_pattern_match(user_id)
       THEN pc' = "fetch_categories" /\ UNCHANGED <<exit_code, outcome>>
       ELSE Exit(1, "invalid_uuid")
    /\ UNCHANGED <<inputs, history, csv_opened, db_expenses, requests, category_map,
                   type_map, df, report, expenses, confirm, migrate_locals, verified>>

\* fetch_category_mapping: the select succeeds, or raises (nothing catches it)
FetchCategories ==
    /\ pc = "fetch_categories"
    /\ \E ok \in BOOLEAN :
        /\ requests' = Append(requests, Request("select", "categories", <<>>, ok,
                                        IF ok THEN Len(db_categories) ELSE 0,
                                        IF ok THEN "" ELSE "connection refused"))
        /\ IF ok
           THEN /\ category_map' = NameToId(db_categories)
                /\ pc' = "fetch_types"
                /\ UNCHANGED <<exit_code, outcome>>
           ELSE /\ Exit(1, "connectivity")
                /\ UNCHANGED category_map
    /\ UNCHANGED <<inputs, history, csv_opened, db_expenses, type_map, df, report,
                   expenses, confirm, migrate_locals, verified>>

\* fetch_type_mapping
FetchTypes ==
    /\ pc = "fetch_types"
    /\ \E ok \in BOOLEAN :
        /\ requests' = Append(requests, Request("select", "expense_types", <<>>, ok,
                                        IF ok THEN Len(db_types) ELSE 0,
                                        IF ok THEN "" ELSE "connection refused"))
        /\ IF ok
           THEN /\ type_map' = NameToId(db_types)
                /\ pc' = "load"
                /\ UNCHANGED <<exit_code, outcome>>
           ELSE /\ Exit(1, "connectivity")
                /\ UNCHANGED type_map
    /\ UNCHANGED <<inputs, history, csv_opened, db_expenses, category_map, df, report,
                   expenses, confirm, migrate_locals, verified>>

\* load_and_clean_csv
LoadAndCleanCsv ==
    /\ pc = "load"
    /\ IF ~csv_exists
       THEN /\ Exit(1, "file_not_found")
            /\ UNCHANGED <<csv_opened, df, report>>
       ELSE LET cleaned_df == CleanedDf(csv_rows)
                original_count == Len(cleaned_df)
                kept == DropInvalidDates(cleaned_df)
            IN  /\ csv_opened' = TRUE
                /\ df' = kept
                /\ report' = [report EXCEPT !.rows_read = Len(csv_rows),
                                            !.rows_retained = Len(kept),
                                            !.removed_count = original_count - Len(kept)]
                /\ pc' = "validate"
                /\ UNCHANGED <<exit_code, outcome>>
    /\ UNCHANGED <<inputs, history, db_expenses, requests, category_map, type_map,
                   expenses, confirm, migrate_locals, verified>>

\* validate_data
ValidateData ==
    /\ pc = "validate"
    /\ LET invalid_categories == InvalidReport(df, "category", category_map)
           invalid_types == InvalidReport(df, "type", type_map)
       IN  /\ report' = [report EXCEPT !.invalid_categories = invalid_categories,
                                       !.invalid_types = invalid_types]
           /\ IF invalid_categories # {} \/ invalid_types # {}
              THEN Exit(1, "validation_failed")
              ELSE pc' = "transform" /\ UNCHANGED <<exit_code, outcome>>
    /\ UNCHANGED <<inputs, history, csv_opened, db_expenses, requests, category_map,
                   type_map, df, expenses, confirm, migrate_locals, verified>>

\* transform_data
TransformData ==
    /\ pc = "transform"
    /\ expenses' = transform_data(df, category_map, type_map, user_id)
    /\ report' = [report EXCEPT !.skipped = SkippedCount(df, category_map, type_map)]
    /\ pc' = "confirm"
    /\ UNCHANGED <<exit_code, outcome, inputs, history, csv_opened, db_expenses, requests,
                   category_map, type_map, df, confirm, migrate_locals, verified>>

\* mutant of Confirm: the answer is read and the migration goes on
Confirm_NoGate ==
    /\ pc = "confirm"
    /\ confirm' = stdin
    /\ pc' = "migrate"
    /\ UNCHANGED <<exit_code, outcome, inputs, history, csv_opened, db_expenses, requests,
                   category_map, type_map, df, report, expenses, migrate_locals,
                   verified>>

\* main: the confirmation prompt
Confirm ==
    /\ pc = "confirm"
    /\ confirm' = stdin
    /\ IF lower(confirm') # "yes"
       THEN Exit(0, "cancelled")
       ELSE pc' = "migrate" /\ UNCHANGED <<exit_code, outcome>>
    /\ UNCHANGED <<inputs, history, csv_opened, db_expenses, requests, category_map,
                   type_map, df, report, expenses, migrate_locals, verified>>

\* mutant of MigrateBatch: an insert that raises ends the loop
MigrateBatch_BreakOnError ==
    /\ pc = "migrate"
    /\ i < Len(expenses)
    /\ LET batch == BatchAt(expenses, i)
       IN  \/ \E data \in {batch, SubSeq(batch, 1, Len(batch) - 1)} :
                /\ requests' = Append(requests, Request("insert", "expenses", batch, TRUE, Len(data), ""))
                /\ db_expenses' = db_expenses \o data
                /\ total_inserted' = AddInserted(total_inserted, data, batch)
                /\ i' = NextI(i)
                /\ UNCHANGED errors
           \/ \E msg \in Messages :
                /\ requests' = Append(requests, Request("insert", "expenses", batch, FALSE, 0, msg))
                /\ errors' = Append(errors, ErrorEntry(i, msg))
                /\ i' = Len(expenses)
                /\ UNCHANGED <<db_expenses, total_inserted>>
    /\ UNCHANGED <<pc, exit_code, outcome, inputs, history, csv_opened, category_map,
                   type_map, df, report, expenses, confirm, verified>>

\* migrate_expenses: one iteration of the loop. The insert returns the rows
\* it wrote (all of the batch, or all but the last), or raises.
MigrateBatch ==
    /\ pc = "migrate"
    /\ i < Len(expenses)
    /\ LET batch == BatchAt(expenses, i)
       IN  \/ \E data \in {batch, SubSeq(batch, 1, Len(batch) - 1)} :
                /\ requests' = Append(requests, Request("insert", "expenses", batch, TRUE, Len(data), ""))
                /\ db_expenses' = db_expenses \o data
                /\ total_inserted' = AddInserted(total_inserted, data, batch)
                /\ UNCHANGED errors
           \/ \E msg \in Messages :
                /\ requests' = Append(requests, Request("insert", "expenses", batch, FALSE, 0, msg))
                /\ errors' = Append(errors, ErrorEntry(i, msg))
                /\ UNCHANGED <<db_expenses, total_inserted>>
    /\ i' = NextI(i)
    /\ UNCHANGED <<pc, exit_code, outcome, inputs, history, csv_opened, category_map,
                   type_map, df, report, expenses, confirm, verified>>

\* migrate_expenses: the loop is over, total_inserted is returned
MigrateReturn ==
    /\ pc = "migrate"
    /\ i >= Len(expenses)
    /\ pc' = "verify"
    /\ UNCHANGED <<exit_code, outcome, inputs, history, csv_opened, db_expenses, requests,
                   category_map, type_map, df, report, expenses, confirm,
                   migrate_locals, verified>>

\* mutant of VerifyMigration: a count mismatch ends the run with status 1
VerifyMigration_MismatchFails ==
    /\ pc = "verify"
    /\ \E ok \in BOOLEAN :
        /\ requests' = Append(requests, Request("count", "expenses", <<>>, ok,
                                        IF ok THEN CountFor(db_expenses, user_id) ELSE 0,
                                        IF ok THEN "" ELSE "connection refused"))
        /\ IF ok
           THEN /\ verified' = IF CountFor(db_expenses, user_id) = total_inserted
                               THEN "match" ELSE "mismatch"
                /\ IF CountFor(db_expenses, user_id) = total_inserted
                   THEN Exit(0, "complete") ELSE Exit(1, "complete")
           ELSE /\ Exit(1, "verify_error")
                /\ UNCHANGED verified
    /\ UNCHANGED <<inputs, history, csv_opened, db_expenses, category_map, type_map, df,
                   report, expenses, confirm, migrate_locals>>

\* mutant of VerifyMigration: the count is compared with the number of
\* transformed records
VerifyMigration_ComparesTransformed ==
    /\ pc = "verify"
    /\ \E ok \in BOOLEAN :
        /\ requests' = Append(requests, Request("count", "expenses", <<>>, ok,
                                        IF ok THEN CountFor(db_expenses, user_id) ELSE 0,
                                        IF ok THEN "" ELSE "connection refused"))
        /\ IF ok
           THEN /\ verified' = IF CountFor(db_expenses, user_id) = Len(expenses)
                               THEN "match" ELSE "mismatch"
                /\ Exit(0, "complete")
           ELSE /\ Exit(1, "verify_error")
                /\ UNCHANGED verified
    /\ UNCHANGED <<inputs, history, csv_opened, db_expenses, category_map, type_map, df,
                   report, expenses, confirm, migrate_locals>>

\* verify_migration and the end of main: the count query succeeds (a match or
\* a mismatch, both followed by the summary) or raises
VerifyMigration ==
    /\ pc = "verify"
    /\ \E ok \in BOOLEAN :
        /\ requests' = Append(requests, Request("count", "expenses", <<>>, ok,
                                        IF ok THEN CountFor(db_expenses, user_id) ELSE 0,
                                        IF ok THEN "" ELSE "connection refused"))
        /\ IF ok
           THEN /\ verified' = IF CountFor(db_expenses, user_id) = total_inserted
                               THEN "match" ELSE "mismatch"
                /\ Exit(0, "complete")
           ELSE /\ Exit(1, "verify_error")
                /\ UNCHANGED verified
    /\ UNCHANGED <<inputs, history, csv_opened, db_expenses, category_map, type_map, df,
                   report, expenses, confirm, migrate_locals>>

Next ==
    \/ CheckUuid
    \/ FetchCategories
    \/ FetchTypes
    \/ LoadAndCleanCsv
    \/ ValidateData
    \/ TransformData
    \/ Confirm
    \/ MigrateBatch
    \/ MigrateReturn
    \/ VerifyMigration

Spec == Init /\ [][Next]_vars

\* every step of the script runs to its end: the run never stalls
FairSpec == Spec /\ WF_vars(Next)

\* transform_data on its own: called with any cleaned frame, validated or
\* not, and either pair of maps
InitTransform ==
    /\ pc = "transform" /\ exit_code = 0 - 1 /\ outcome = ""
    /\ user_id \in {GoodUuid, GoodUuid \o <<"\n">>}
    /\ csv_exists = TRUE
    /\ csv_rows \in SmallCsvs
    /\ csv_opened = TRUE
    /\ stdin = "yes"
    /\ db_categories \in {FullCategories, FewCategories}
    /\ db_types = ExpenseTypes
    /\ db_expenses = <<>>
    /\ requests = <<>>
    /\ category_map = NameToId(db_categories)
    /\ type_map = NameToId(db_types)
    /\ df = DropInvalidDates(CleanedDf(csv_rows))
    /\ report = NoReport
    /\ expenses = <<>>
    /\ confirm = ""
    /\ i = 0 /\ total_inserted = 0 /\ errors = <<>>
    /\ verified = ""
    /\ run = 1 /\ db_at_start = db_expenses

NextTransform == TransformData

\* the script is started again on the same input after a run that completed:
\* a new process, the same arguments, the destination as the last run left it
RunAgain ==
    /\ pc = "exited" /\ outcome = "complete"
    /\ run < MaxRuns
    /\ run' = run + 1
    /\ db_at_start' = db_expenses
    /\ pc' = "start" /\ exit_code' = 0 - 1 /\ outcome' = ""
    /\ csv_opened' = FALSE
    /\ requests' = <<>>
    /\ category_map' = <<>> /\ type_map' = <<>>
    /\ df' = <<>> /\ report' = NoReport /\ expenses' = <<>>
    /\ confirm' = ""
    /\ i' = 0 /\ total_inserted' = 0 /\ errors' = <<>>
    /\ verified' = ""
    /\ UNCHANGED <<inputs, db_expenses>>

\* repeated runs: a file of at most one row, or of one full batch and a row,
\* with an operator who confirms
InitTwice ==
    /\ pc = "start" /\ exit_code = 0 - 1 /\ outcome = ""
    /\ user_id = GoodUuid
    /\ csv_exists = TRUE
    /\ csv_rows \in SeqsUpTo(SampleRows, 1) \cup {LongCsv(batch_size + 1)}
    /\ csv_opened = FALSE
    /\ stdin = "yes"
    /\ db_categories = FullCategories
    /\ db_types = ExpenseTypes
    /\ db_expenses \in {<<>>, <<PriorExpense>>}
    /\ requests = <<>>
    /\ category_map = <<>> /\ type_map = <<>>
    /\ df = <<>> /\ report = NoReport /\ expenses = <<>>
    /\ confirm = ""
    /\ i = 0 /\ total_inserted = 0 /\ errors = <<>>
    /\ verified = ""
    /\ run = 1 /\ db_at_start = db_expenses

NextTwice ==
    \/ Next
    \/ RunAgain

SpecTwice == InitTwice /\ [][NextTwice]_vars

SpecTransform == InitTransform /\ [][NextTransform]_vars

\* ------------------------------------------------------------- the claims
\* the insert calls the destination received, in order
InsertRequests == SelectSeq(requests, LAMBDA r : r.op = "insert")

\* migrate_expenses has returned
LoopDone == lower(confirm) = "yes" /\ pc \in {"verify", "exited"}

CeilDiv(a, b) == (a + b - 1) \div b

\* the positions of the inserts that raised, in increasing order
FailedBatches ==
    SelectSeq([k \in 1..Len(InsertRequests) |-> k], LAMBDA k : ~InsertRequests[k].ok)

\* C1: a failed insert does not stop the loop. While the loop runs, the
\* batches before position i have each been sent once, whatever they answered;
\* when it is over, ceil(n / 100) inserts were sent, the k-th of them starting
\* at record (k - 1) * 100: no batch was retried, none was skipped, and every
\* batch after a failed one was attempted.
C1_EveryBatchAttemptedOnce ==
    LET n == Len(expenses)
        sent == Len(InsertRequests)
    IN  /\ pc = "migrate" => i % batch_size = 0 /\ sent = i \div batch_size
        /\ LoopDone => sent = CeilDiv(n, batch_size)
        /\ \A k \in 1..sent :
              /\ InsertRequests[k].rows # <<>>
              /\ Head(InsertRequests[k].rows) = expenses[(k - 1) * batch_size + 1]
        /\ \A k \in 1..sent :
              ~InsertRequests[k].ok /\ k * batch_size < n /\ LoopDone => sent > k

\* three batches were sent although the first one raised
C1_Witness ==
    /\ LoopDone
    /\ Len(InsertRequests) = 3
    /\ ~InsertRequests[1].ok /\ InsertRequests[3].ok

\* C2: the total migrate_expenses returns is the sum of the row counts the
\* succeeding inserts returned, a failed batch adding nothing; when every
\* succeeding insert returned its whole batch, the rows missing from the total
\* are the rows of the failed batches, at most 100 for each of them.
C2_TotalIsSumOfReturned ==
    LET sent == Len(InsertRequests)
        returned == [k \in 1..sent |->
                        IF InsertRequests[k].ok THEN InsertRequests[k].returned ELSE 0]
        lost == [k \in 1..Len(FailedBatches) |-> Len(InsertRequests[FailedBatches[k]].rows)]
        allWhole == \A k \in 1..sent :
                        InsertRequests[k].ok => InsertRequests[k].returned = Len(InsertRequests[k].rows)
    IN  /\ total_inserted = SeqSum(returned)
        /\ LoopDone /\ allWhole =>
              /\ Len(expenses) - total_inserted = SeqSum(lost)
              /\ Len(expenses) - total_inserted <= batch_size * Len(FailedBatches)

\* 250 records, the second batch raised, the others were written whole: 150
C2_Witness ==
    /\ LoopDone
    /\ Len(expenses) = 2 * batch_size + batch_size \div 2
    /\ FailedBatches = <<2>>
    /\ total_inserted = batch_size + batch_size \div 2

\* C3 (as amended): when migrate_expenses is over, the error list holds one
\* entry for each insert that raised and none for the others, in batch order;
\* the entry names the batch by its 1-based ordinal ("Batch 2" for the second
\* batch) and carries the exception's text.
C3_ErrorsNameOrdinal ==
    LoopDone =>
        /\ Len(errors) = Len(FailedBatches)
        /\ \A j \in 1..Len(FailedBatches) :
              errors[j] = <<"Batch ", ToString(FailedBatches[j]), ": ",
                            InsertRequests[FailedBatches[j]].error>>

\* C3 as stated: the entry names the batch by its 0-based index
C3_ErrorsNameZeroBasedIndex ==
    LoopDone =>
        /\ Len(errors) = Len(FailedBatches)
        /\ \A j \in 1..Len(FailedBatches) :
              errors[j] = <<"Batch ", ToString(FailedBatches[j] - 1), ": ",
                            InsertRequests[FailedBatches[j]].error>>

\* of three batches only the second raised
C3_Witness ==
    /\ LoopDone
    /\ Len(InsertRequests) = 3
    /\ FailedBatches = <<2>>
    /\ Len(errors) = 1

RECURSIVE ConcatRows(_)
ConcatRows(reqs) == IF reqs = <<>> THEN <<>> ELSE Head(reqs).rows \o ConcatRows(Tail(reqs))

\* C4: the batches sent are contiguous slices in order: every batch but the
\* last has 100 records, the last has 1 to 100, none is empty, the batches
\* sent so far put end to end are the records before position i (all of them
\* when the loop is over), and an empty input sends no insert.
C4_BatchesPartitionInput ==
    LET sent == Len(InsertRequests)
    IN  /\ \A k \in 1..sent :
              /\ Len(InsertRequests[k].rows) \in 1..batch_size
              /\ k < sent => Len(InsertRequests[k].rows) = batch_size
        /\ pc = "migrate" =>
              ConcatRows(InsertRequests) = SubSeq(expenses, 1, Min(i, Len(expenses)))
        /\ LoopDone => ConcatRows(InsertRequests) = expenses
        /\ LoopDone /\ expenses = <<>> => sent = 0

\* 250 records went out as batches of 100, 100 and 50
C4_Witness ==
    /\ LoopDone
    /\ Len(InsertRequests) = 3
    /\ Len(InsertRequests[1].rows) = batch_size
    /\ Len(InsertRequests[2].rows) = batch_size
    /\ Len(InsertRequests[3].rows) = batch_size \div 2
\* ---- main's gates
SelectOk(table) ==
    \E k \in 1..Len(requests) :
        requests[k].op = "select" /\ requests[k].table = table /\ requests[k].ok

SelectFailed ==
    \E k \in 1..Len(requests) : requests[k].op = "select" /\ ~requests[k].ok

Declined == confirm # "" /\ lower(confirm) # "yes"

\* the cleaned rows hold a category or a type the destination does not know
HasUnknownValue ==
    \E k \in 1..Len(df) :
        \/ ~isna(df[k].category) /\ df[k].category \notin DOMAIN category_map
        \/ ~isna(df[k].type) /\ df[k].type \notin DOMAIN type_map

NoWrites == InsertRequests = <<>> /\ db_expenses \in {<<>>, <<PriorExpense>>}

\* C5: an insert reaches the destination only after both lookup selects
\* succeeded, the input file was found and read, validate_data found no
\* unknown value and the operator answered yes; a run that ends on a failed
\* lookup select, a missing file, a validation failure or a declined prompt
\* has written nothing.
C5_WritesOnlyAfterGates ==
    /\ InsertRequests # <<>> =>
          /\ SelectOk("categories") /\ SelectOk("expense_types")
          /\ csv_exists /\ csv_opened
          /\ ~HasUnknownValue
          /\ lower(confirm) = "yes"
    /\ pc = "exited" /\ (SelectFailed \/ ~csv_exists \/ HasUnknownValue \/ Declined)
          => NoWrites

\* a batch was written to the destination
C5_Witness ==
    /\ InsertRequests # <<>>
    /\ InsertRequests[1].ok
    /\ db_expenses \notin {<<>>, <<PriorExpense>>}

\* C6 (as amended): the run ends with a non-zero exit code when the format
\* check rejects the owner identifier, when a lookup select fails, when the
\* input file is missing and when validate_data finds an unknown value; it
\* ends with exit code 0 when the operator declines.
C6_FatalExitCodes ==
    pc = "exited" =>
        /\ ~uuid_pattern_match(user_id) => exit_code = 1
        /\ SelectFailed => exit_code = 1
        /\ uuid_pattern_match(user_id) /\ ~SelectFailed /\ ~csv_exists => exit_code = 1
        /\ HasUnknownValue => exit_code = 1
        /\ Declined => exit_code = 0

\* C6 as stated: declining the prompt ends the run with a non-zero exit code
\* too
C6_DeclineIsNonZero ==
    pc = "exited" =>
        /\ ~uuid_pattern_match(user_id) => exit_code # 0
        /\ SelectFailed => exit_code # 0
        /\ uuid_pattern_match(user_id) /\ ~SelectFailed /\ ~csv_exists => exit_code # 0
        /\ HasUnknownValue => exit_code # 0
        /\ Declined => exit_code # 0

\* the operator declined and the run is over
C6_Witness == pc = "exited" /\ Declined /\ outcome = "cancelled"

CountRequests == SelectSeq(requests, LAMBDA r : r.op = "count")

\* C7 (as amended): once the operator has confirmed, the run reaches
\* verify_migration's count query and ends; it ends with exit code 0 whenever
\* that query answers, whether the count matches or not and however many
\* batches failed, and with a non-zero exit code only when the query raises.
C7_ConfirmedRunVerifiesAndExits ==
    /\ [](pc = "exited" /\ lower(confirm) = "yes" =>
            /\ Len(CountRequests) = 1
            /\ (exit_code = 0) = CountRequests[1].ok
            /\ (exit_code = 1) = ~CountRequests[1].ok)
    /\ (lower(confirm) = "yes" ~> (pc = "exited" /\ Len(CountRequests) = 1))

\* C7 as stated: a confirmed run always ends with exit code 0
C7_ConfirmedRunExitsZero ==
    pc = "exited" /\ lower(confirm) = "yes" => exit_code = 0

\* every batch raised, the count does not match, and the run ended with 0
C7_Witness ==
    /\ pc = "exited" /\ exit_code = 0
    /\ verified = "mismatch"
    /\ Len(InsertRequests) = 3
    /\ Len(FailedBatches) = 3

\* C8 as stated: an owner identifier that is not the 36-character lowercase
\* hyphenated form is rejected before any destination call and before the
\* input file is read
C8_MalformedIdRejectedPreflight ==
    ~IsUuidText(user_id) => requests = <<>> /\ ~csv_opened /\ pc \in {"start", "exited"}

\* ---- validate_data and load_and_clean_csv
\* validate_data has run on df
Validated == pc = "transform" \/ outcome = "validation_failed"

\* the rows of df that carry value v in column col
RowsWith(col, v) == {k \in 1..Len(df) : df[k][col] = v}

\* C9: validate_data ends the run (exit code 1) exactly when a cleaned row
\* has a non-null category that is no key of the category map or a non-null
\* type that is no key of the type map; a null value never counts; what it
\* reports is each such value once, with the number of rows that carry it.
C9_ValidationFailsIffUnknownValue ==
    Validated =>
        /\ (pc = "exited" /\ exit_code = 1) = HasUnknownValue
        /\ \A e \in report.invalid_categories :
              /\ ~isna(e[1]) /\ e[1] \notin DOMAIN category_map
              /\ e[2] = Cardinality(RowsWith("category", e[1])) /\ e[2] > 0
        /\ \A e \in report.invalid_types :
              /\ ~isna(e[1]) /\ e[1] \notin DOMAIN type_map
              /\ e[2] = Cardinality(RowsWith("type", e[1])) /\ e[2] > 0
        /\ \A k \in 1..Len(df) :
              /\ ~isna(df[k].category) /\ df[k].category \notin DOMAIN category_map
                    => \E e \in report.invalid_categories : e[1] = df[k].category
              /\ ~isna(df[k].type) /\ df[k].type \notin DOMAIN type_map
                    => \E e \in report.invalid_types : e[1] = df[k].type

\* two rows carry the unknown category, and a row with a null category and a
\* null type is not reported
C9_Witness ==
    /\ outcome = "validation_failed"
    /\ \E e \in report.invalid_categories : e[2] = 2
    /\ report.invalid_types = {}

\* a run whose only rows have a null category passes validation
C9_NullWitness ==
    /\ pc = "transform"
    /\ Len(df) > 0
    /\ \A k \in 1..Len(df) : isna(df[k].category) /\ isna(df[k].type)

\* the rows of the file whose date does not normalize to null
DatedRows == {k \in 1..Len(csv_rows) : ~isna(parse_notion_date(csv_rows[k].Date))}

\* C10: load_and_clean_csv keeps the rows whose date normalizes to a date, in
\* the order of the file, and drops the others: no kept row has a null date,
\* rows read = rows kept + rows dropped, and a row whose amount does not parse
\* is kept, with amount 0, when its date is one.
C10_DropsExactlyNullDates ==
    pc = "validate" =>
        /\ Len(df) = Cardinality(DatedRows)
        /\ \A k \in DatedRows :
              df[Cardinality({m \in DatedRows : m <= k})] = CleanRow(csv_rows[k])
        /\ \A j \in 1..Len(df) : ~isna(df[j].date)
        /\ report.rows_read = Len(csv_rows)
        /\ report.rows_retained = Len(df)
        /\ report.rows_read = report.rows_retained + report.removed_count
        /\ \A k \in DatedRows :
              csv_rows[k].Amount = <<"abc">> =>
                  df[Cardinality({m \in DatedRows : m <= k})].amount = 0

\* the first row of the file was dropped for its date, the second was kept
\* although its amount does not parse
C10_Witness ==
    /\ pc = "validate"
    /\ report.removed_count = 1
    /\ Len(csv_rows) = 2
    /\ isna(parse_notion_date(csv_rows[1].Date))
    /\ csv_rows[2].Amount = <<"abc">>
    /\ Len(df) = 1 /\ df[1].amount = 0 /\ df[1].description = <<"Gift">>
\* ---- transform_data
\* the rows of df whose category and type are both keys of the maps
ResolvedRows ==
    {k \in 1..Len(df) :
        df[k].category \in DOMAIN category_map /\ df[k].type \in DOMAIN type_map}

\* the place in the output of resolved row k
OutputIndex(k) == Cardinality({m \in ResolvedRows : m <= k})

\* C11: transform_data outputs, in input order, one record for each row whose
\* category and type are keys of the maps, with the owner id, the identifiers
\* the maps give for the row's category and type, and the row's other fields;
\* every other row (a null category or type included) is skipped, and
\* records produced + skipped = rows given.
C11_TransformKeepsResolvedRows ==
    pc = "confirm" =>
        /\ Len(expenses) = Cardinality(ResolvedRows)
        /\ \A k \in ResolvedRows :
              expenses[OutputIndex(k)] =
                  [user_id |-> user_id,
                   category_id |-> category_map[df[k].category],
                   type_id |-> type_map[df[k].type],
                   description |-> df[k].description,
                   amount |-> df[k].amount,
                   date |-> df[k].date,
                   note |-> df[k].note]
        /\ \A k \in 1..Len(df) :
              isna(df[k].category) \/ isna(df[k].type) => k \notin ResolvedRows
        /\ Len(expenses) + report.skipped = Len(df)

\* of two rows the first names a category the map lacks and is skipped, the
\* second is output
C11_Witness ==
    /\ pc = "confirm"
    /\ Len(df) = 2
    /\ ~isna(df[1].category) /\ df[1].category \notin DOMAIN category_map
    /\ ResolvedRows = {2}
    /\ Len(expenses) = 1 /\ expenses[1].description = df[2].description
    /\ report.skipped = 1
\* C12 as stated: no cleaned record has a negative amount, and no record
\* written to the destination carries one
C12_AmountsNonNegative ==
    /\ \A k \in 1..Len(df) : df[k].amount >= 0
    /\ \A k \in 1..Len(expenses) : expenses[k].amount >= 0
    /\ \A k \in 1..Len(db_expenses) : db_expenses[k].amount >= 0

\* ---- repeated runs and verify_migration
\* every insert of this run returned its whole batch
AllBatchesWritten ==
    \A k \in 1..Len(InsertRequests) :
        InsertRequests[k].ok /\ InsertRequests[k].returned = Len(InsertRequests[k].rows)

EndsWith(s, t) == Len(s) >= Len(t) /\ SubSeq(s, Len(s) - Len(t) + 1, Len(s)) = t

Completed == pc = "exited" /\ outcome = "complete"

\* C13: the pipeline is not idempotent. A confirmed run whose batches were all
\* written appends every transformed record to what the destination held when
\* the run started, so the owner's row count grows by their number on each
\* run; after a second such run on the same input the destination ends with
\* the records twice over: nothing in the run looks for the rows already there.
C13_SecondRunDuplicates ==
    Completed /\ AllBatchesWritten =>
        /\ db_expenses = db_at_start \o expenses
        /\ CountFor(db_expenses, user_id) = CountFor(db_at_start, user_id) + Len(expenses)
        /\ run >= 2 /\ EndsWith(db_at_start, expenses) =>
              EndsWith(db_expenses, expenses \o expenses)

\* the second run of a 101-row file has completed: the destination, empty at
\* first, holds the 101 records twice
C13_Witness ==
    /\ Completed /\ AllBatchesWritten
    /\ run = 2
    /\ Len(expenses) = batch_size + 1
    /\ db_expenses = expenses \o expenses

\* the rows written to the destination during this run
Persisted == Len(db_expenses) - Len(db_at_start)

\* C14: verify_migration compares the owner's row count in the destination
\* with the total migrate_expenses returned, not with the number of
\* transformed records: it finds a match exactly when the rows the owner had
\* before the run plus the rows written in the run equal that total. So a run
\* with a failed batch is a match when the owner had no row before, and a run
\* whose batches were all written is a mismatch when the owner had one.
C14_VerifyComparesOwnerCountWithTotal ==
    Completed =>
        /\ (verified = "match") =
              (CountFor(db_at_start, user_id) + Persisted = total_inserted)
        /\ verified \in {"match", "mismatch"}
        /\ CountFor(db_at_start, user_id) = 0 => verified = "match"
        /\ AllBatchesWritten /\ CountFor(db_at_start, user_id) >= 1 =>
              verified = "mismatch"

\* a second run of the same input, its batches all written, ends in a
\* mismatch: the owner's rows of the first run are counted too
C14_Witness ==
    /\ Completed /\ AllBatchesWritten
    /\ run = 2
    /\ Len(expenses) >= 1
    /\ db_expenses = expenses \o expenses
    /\ verified = "mismatch"

\* a run with a failed batch and no earlier row of the owner ends in a match
C14_FailedBatchWitness ==
    /\ Completed
    /\ FailedBatches # <<>>
    /\ total_inserted < Len(expenses)
    /\ verified = "match"
====
